---------------------------- MODULE Spec2Model ----------------------------
(***************************************************************************)
(* ECoS help generator (ecoshelpgenerator.py): the crawl of the device's   *)
(* help() pages and the HTML pages written from them.                      *)
(*                                                                         *)
(* Text is a sequence of one-character strings, so that the regular        *)
(* expressions, the sentinel stripping, the escaping and the string        *)
(* formatting of the program are computed character by character.          *)
(***************************************************************************)
EXTENDS Naturals, Sequences, FiniteSets

(***************************************************************************)
(* Characters and the character classes of Python's re module.             *)
(***************************************************************************)
LowerCase == <<"a", "b", "c", "d", "e", "f", "g", "h", "i", "j", "k", "l", "m", "n", "o", "p", "q", "r", "s", "t", "u", "v", "w", "x", "y", "z">>
UpperCase == <<"A", "B", "C", "D", "E", "F", "G", "H", "I", "J", "K", "L", "M", "N", "O", "P", "Q", "R", "S", "T", "U", "V", "W", "X", "Y", "Z">>

Range(s) == {s[i] : i \in 1..Len(s)}

\* [a-z]
LowerSet == Range(LowerCase)
\* \d
DigitSet == Range(<<"0", "1", "2", "3", "4", "5", "6", "7", "8", "9">>)
\* [a-z-]
ClassNameSet == LowerSet \cup {"-"}
\* [a-z0-9-]
AttributeNameSet == LowerSet \cup DigitSet \cup {"-"}
\* \w for ASCII text
WordSet == LowerSet \cup Range(UpperCase) \cup DigitSet \cup {"_"}
\* \s for the ASCII text a TLA+ string can spell
SpaceSet == {" ", "\t", "\n", "\r", "\f"}

\* os.linesep (POSIX)
linesep == <<"\n">>

\* the value None of a response
None == <<"None">>

(***************************************************************************)
(* String primitives.                                                      *)
(***************************************************************************)
Take(s, n) == SubSeq(s, 1, n)
Drop(s, n) == SubSeq(s, n + 1, Len(s))

\* s[i:].startswith(p), i counted from 1
StartsAt(s, i, p) ==
    /\ i + Len(p) - 1 <= Len(s)
    /\ SubSeq(s, i, i + Len(p) - 1) = p

\* str.startswith
StartsWith(s, p) == StartsAt(s, 1, p)

\* str.index, counted from 1; 0 stands for the ValueError of a missing substring
Index(s, p) ==
    LET hits == {i \in 1..Len(s) : StartsAt(s, i, p)}
    IN IF hits = {} THEN 0 ELSE CHOOSE i \in hits : \A j \in hits : i <= j

\* the length of the longest run of characters of class cls that starts at s[i]
RunLength(s, i, cls) ==
    CHOOSE n \in 0..(Len(s) + 1 - i) :
        /\ \A k \in 0..(n - 1) : s[i + k] \in cls
        /\ (i + n > Len(s) \/ s[i + n] \notin cls)

\* ^ under re.MULTILINE: the start of the text or just after a newline
AtLineStart(s, i) == i = 1 \/ s[i - 1] = "\n"

IsWordAt(s, k) == k \in 1..Len(s) /\ s[k] \in WordSet

\* \b between s[p-1] and s[p]
WordBoundary(s, p) == IsWordAt(s, p - 1) # IsWordAt(s, p)

\* [cls]+\b at s[i]: greedy, giving characters back until \b holds;
\* the position after the match, 0 when there is none
IdentifierEnd(s, i, cls) ==
    LET n == RunLength(s, i, cls)
        ok == {k \in 1..n : WordBoundary(s, i + k)}
    IN IF ok = {} THEN 0 ELSE i + (CHOOSE k \in ok : \A j \in ok : j <= k)

\* str.replace of one character by a string
RECURSIVE Replace(_, _, _)
Replace(s, c, r) ==
    IF s = <<>> THEN <<>>
    ELSE (IF Head(s) = c THEN r ELSE <<Head(s)>>) \o Replace(Tail(s), c, r)

\* str.capitalize: first character upper-cased, the rest lower-cased
ToUpper(c) ==
    IF c \in LowerSet THEN UpperCase[CHOOSE i \in 1..26 : LowerCase[i] = c] ELSE c
ToLower(c) ==
    IF c \in Range(UpperCase) THEN LowerCase[CHOOSE i \in 1..26 : UpperCase[i] = c] ELSE c
Capitalize(s) ==
    [i \in 1..Len(s) |-> IF i = 1 THEN ToUpper(s[i]) ELSE ToLower(s[i])]

(***************************************************************************)
(* Regular expressions.  A match is [start, end, pre, name]: it covers     *)
(* s[start .. end-1], pre is group 1 and name is group 2; end = 0 is no    *)
(* match.                                                                  *)
(***************************************************************************)
NoMatch == [start |-> 0, end |-> 0, pre |-> <<>>, name |-> <<>>]

\* help\(([a-z]+)\)
GenericPattern(s, i) ==
    LET n == RunLength(s, i + 5, LowerSet)
    IN IF /\ StartsAt(s, i, <<"h", "e", "l", "p", "(">>)
          /\ n >= 1
          /\ StartsAt(s, i + 5 + n, <<")">>)
       THEN [start |-> i, end |-> i + 5 + n + 1, pre |-> <<>>,
             name |-> SubSeq(s, i + 5, i + 4 + n)]
       ELSE NoMatch

\* ^(\s+)([a-z-]+)\b with re.MULTILINE
ObjectClassPattern(s, i) ==
    LET w == RunLength(s, i, SpaceSet)
        e == IdentifierEnd(s, i + w, ClassNameSet)
    IN IF AtLineStart(s, i) /\ w >= 1 /\ e > 0
       THEN [start |-> i, end |-> e, pre |-> SubSeq(s, i, i + w - 1),
             name |-> SubSeq(s, i + w, e - 1)]
       ELSE NoMatch

\* ^(\s{4})([a-z0-9-]+)\b with re.MULTILINE
AttributePattern(s, i) ==
    LET e == IdentifierEnd(s, i + 4, AttributeNameSet)
    IN IF /\ AtLineStart(s, i)
          /\ i + 3 <= Len(s)
          /\ \A k \in 0..3 : s[i + k] \in SpaceSet
          /\ e > 0
       THEN [start |-> i, end |-> e, pre |-> SubSeq(s, i, i + 3),
             name |-> SubSeq(s, i + 4, e - 1)]
       ELSE NoMatch

\* (Manager: \d+ \()([a-z-]+)(\))
ManagerPattern(s, i) ==
    LET d == RunLength(s, i + 9, DigitSet)
        b == i + 9 + d
        n == RunLength(s, b + 2, ClassNameSet)
    IN IF /\ StartsAt(s, i, <<"M", "a", "n", "a", "g", "e", "r", ":", " ">>)
          /\ d >= 1
          /\ StartsAt(s, b, <<" ", "(">>)
          /\ n >= 1
          /\ StartsAt(s, b + 2 + n, <<")">>)
       THEN [start |-> i, end |-> b + 2 + n + 1, pre |-> SubSeq(s, i, b + 1),
             name |-> SubSeq(s, b + 2, b + 1 + n)]
       ELSE NoMatch

\* ^#( |) with re.MULTILINE
SentinelPattern(s, i) ==
    IF AtLineStart(s, i) /\ StartsAt(s, i, <<"#">>)
    THEN [start |-> i, end |-> IF StartsAt(s, i + 1, <<" ">>) THEN i + 2 ELSE i + 1,
          pre |-> <<>>, name |-> <<>>]
    ELSE NoMatch

MatchAt(pattern, s, i) ==
    CASE pattern = "generic" -> GenericPattern(s, i)
      [] pattern = "objectclass" -> ObjectClassPattern(s, i)
      [] pattern = "attribute" -> AttributePattern(s, i)
      [] pattern = "manager" -> ManagerPattern(s, i)
      [] pattern = "sentinel" -> SentinelPattern(s, i)

\* the matches re.sub visits: leftmost first, the scan resuming where a match ended
RECURSIVE FindAll(_, _, _)
FindAll(pattern, s, i) ==
    IF i > Len(s) THEN <<>>
    ELSE LET m == MatchAt(pattern, s, i)
         IN IF m.end > 0 THEN <<m>> \o FindAll(pattern, s, m.end)
            ELSE FindAll(pattern, s, i + 1)

\* the text re.sub returns: the first Len(repl) matches replaced, the text
\* between them kept
RECURSIVE Splice(_, _, _, _, _)
Splice(s, matches, repl, k, pos) ==
    IF k > Len(matches) THEN SubSeq(s, pos, Len(s))
    ELSE SubSeq(s, pos, matches[k].start - 1) \o repl[k]
             \o Splice(s, matches, repl, k + 1, matches[k].end)

Sub(s, matches, repl) == Splice(s, matches, repl, 1, 1)

(***************************************************************************)
(* String formatting.                                                      *)
(***************************************************************************)
COMMANDS == << <<"g", "e", "t">>, <<"s", "e", "t">>, <<"c", "r", "e", "a", "t", "e">>, <<"d", "e", "l", "e", "t", "e">>, <<"r", "e", "q", "u", "e", "s", "t">>,
               <<"r", "e", "l", "e", "a", "s", "e">>, <<"l", "i", "n", "k">>, <<"u", "n", "l", "i", "n", "k">>, <<"q", "u", "e", "r", "y", "O", "b", "j", "e", "c", "t", "s">> >>

NumCommands == Len(COMMANDS)

\* 'help()'
HelpRoot == <<"h", "e", "l", "p", "(", ")">>
\* 'help({:s})'.format(name)
HelpFormat(name) == <<"h", "e", "l", "p", "(">> \o name \o <<")">>
\* 'help({:s},{:s})'.format(object_class, command)
HelpCommandFormat(object_class, command) ==
    <<"h", "e", "l", "p", "(">> \o object_class \o <<",">> \o command \o <<")">>
\* 'help({:s},{:s},{:s})'.format(object_class, command, attribute)
HelpAttributeFormat(object_class, command, attribute) ==
    <<"h", "e", "l", "p", "(">> \o object_class \o <<",">> \o command \o <<",">> \o attribute \o <<")">>

\* '<a href="{:s}">{:s}</a>'.format(target, label)
Link(target, label) == <<"<", "a", " ", "h", "r", "e", "f", "=", "\"">> \o target \o <<"\"", ">">> \o label \o <<"<", "/", "a", ">">>

\* '<a id="' + command + '"></a>'
Anchor(command) == <<"<", "a", " ", "i", "d", "=", "\"">> \o command \o <<"\"", ">", "<", "/", "a", ">">>

IndexFilename == <<"i", "n", "d", "e", "x", ".", "h", "t", "m", "l">>
\* topic + '.html', object_class + '.html'
PageFilename(name) == name \o <<".", "h", "t", "m", "l">>
\* object_class + '.' + command + '.' + attribute + '.html'
AttributeFilename(object_class, command, attribute) ==
    object_class \o <<".">> \o command \o <<".">> \o attribute \o <<".", "h", "t", "m", "l">>
\* '{:s} :: {:s} :: {:s}'.format(object_class, command, attribute)
AttributeTitle(object_class, command, attribute) ==
    object_class \o <<" ", ":", ":", " ">> \o command \o <<" ", ":", ":", " ">> \o attribute

\* 'Options for ' + command + ' command:'
OptionsMarker(command) == <<"O", "p", "t", "i", "o", "n", "s", " ", "f", "o", "r", " ">> \o command \o <<" ", "c", "o", "m", "m", "a", "n", "d", ":">>

ObjectClassesMarker == <<"I", "m", "p", "l", "e", "m", "e", "n", "t", "e", "d", " ", "o", "b", "j", "e", "c", "t", "c", "l", "a", "s", "s", "e", "s", ":">>

(***************************************************************************)
(* The device behind the socket.  A device is a record                     *)
(*   root     "marker", "nomarker" or "silent": the reply to help()        *)
(*   topics   the topic names the reply to help() refers to, in order      *)
(*   classes  the object class names it lists, in order                    *)
(*   header   how the device answers help(<name>)                          *)
(*   profile  which commands the object classes support                    *)
(* and answers the same request with the same bytes throughout a run.      *)
(***************************************************************************)
MaxTopics == 1
MaxClasses == 1

TopicNames == { <<"x">>, <<"i", "n", "d", "e", "x">> }
ClassNames == { <<"x">>, <<"e", "c", "o", "s", "-", "l", "i", "n", "k">> }
AttributeNames == { <<"n", "a", "m", "e">>, <<"a", "d", "d", "r">>, <<"z", "z">> }
\* an object class the device names as a manager without listing it
UnlistedManager == <<"m">>

Headers == {"plain", "self", "other", "partial"}
Profiles == {"none", "get", "full", "unmarked", "noget", "ghost"}

SeqsUpTo(S, n) == UNION {[1..k -> S] : k \in 0..n}

Devices ==
    [root : {"marker", "nomarker"}, topics : SeqsUpTo(TopicNames, MaxTopics),
     classes : SeqsUpTo(ClassNames, MaxClasses), header : Headers,
     profile : Profiles]
    \cup
    [root : {"silent"}, topics : {<<>>}, classes : {<<>>}, header : {"plain"},
     profile : {"none"}]

RECURSIVE Concat(_)
Concat(ss) == IF ss = <<>> THEN <<>> ELSE Head(ss) \o Concat(Tail(ss))

\* a reply that is no help text: it does not start with the sentinel
NoHelp == <<"<", "E", "N", "D", " ", "1", "1", ">", "\n">>

RootReply(dev) ==
    IF dev.root = "silent" THEN <<>>
    ELSE <<"#", "S", "e", "s", "s", "i", "o", "n", " ", "h", "e", "l", "p", "\n">>
         \o Concat([k \in 1..Len(dev.topics) |->
                       <<"#", " ", "s", "e", "e", " ", "h", "e", "l", "p", "(">> \o dev.topics[k] \o <<")", "\n">>])
         \o (IF dev.root = "marker" THEN <<"#", "I", "m", "p", "l", "e", "m", "e", "n", "t", "e", "d", " ", "o", "b", "j", "e", "c", "t", "c", "l", "a", "s", "s", "e", "s", ":", "\n">>
             ELSE <<"#", "N", "o", " ", "o", "b", "j", "e", "c", "t", "c", "l", "a", "s", "s", "e", "s", "\n">>)
         \o Concat([k \in 1..Len(dev.classes) |->
                       <<"#", " ", " ">> \o dev.classes[k] \o <<"\n">>])

HeaderReply(dev, name) ==
    CASE dev.header = "plain" -> <<"#">> \o name \o <<" ", "<", "i", "d", ">", "\n">>
      [] dev.header = "self" -> <<"#", "M", "a", "n", "a", "g", "e", "r", ":", " ", "1", " ", "(">> \o name \o <<")", "\n">>
      [] dev.header = "other" -> <<"#", "M", "a", "n", "a", "g", "e", "r", ":", " ", "1", "2", " ", "(">> \o UnlistedManager \o <<")", "\n">>
      [] dev.header = "partial" ->
            IF name = <<"x">> THEN NoHelp ELSE <<"#">> \o name \o <<"\n">>

\* how the device answers help(<class>,<k-th command>): "absent" (no help
\* text), "unmarked" (help text without an option list) or "options"
CommandKind(dev, k) ==
    CASE dev.profile = "get" /\ k = 1 -> "options"
      [] dev.profile = "full" /\ k \in {1, 2, 9} -> "options"
      [] dev.profile = "unmarked" /\ k = 1 -> "options"
      [] dev.profile = "unmarked" /\ k = 2 -> "unmarked"
      [] dev.profile = "noget" /\ k = 2 -> "options"
      [] dev.profile = "ghost" /\ k = 1 -> "options"
      [] OTHER -> "absent"

\* the attributes the option list of the k-th command names
CommandAttributes(dev, k) ==
    CASE dev.profile = "full" /\ k = 1 -> << <<"n", "a", "m", "e">>, <<"a", "d", "d", "r">> >>
      [] dev.profile = "full" /\ k = 2 -> <<>>
      [] dev.profile = "noget" /\ k = 2 -> << <<"n", "a", "m", "e">>, <<"n", "a", "m", "e">> >>
      [] dev.profile = "ghost" /\ k = 1 -> << <<"z", "z">> >>
      [] OTHER -> << <<"n", "a", "m", "e">> >>

CommandReply(dev, k) ==
    LET a == CommandAttributes(dev, k)
    IN CASE CommandKind(dev, k) = "absent" -> NoHelp
         [] CommandKind(dev, k) = "unmarked" -> <<"#", "n", "o", " ", "o", "p", "t", "i", "o", "n", "s", "\n">>
         [] OTHER -> <<"#", "<">> \o COMMANDS[k] \o <<">", "\n", "#">> \o OptionsMarker(COMMANDS[k])
                     \o <<"\n">>
                     \o Concat([j \in 1..Len(a) |-> <<"#", " ", " ", " ", " ", " ">> \o a[j] \o <<"[", "n", "]", "\n">>])

AttributeReply(dev, attribute) ==
    IF attribute = <<"z", "z">> THEN NoHelp ELSE <<"#">> \o attribute \o <<" ", "<", "n", ">", "\n">>

\* the bytes the loop of recv() collects after send(command)
Respond(dev, command) ==
    IF command = HelpRoot THEN RootReply(dev)
    ELSE IF \E n \in TopicNames \cup ClassNames : command = HelpFormat(n)
    THEN HeaderReply(dev, CHOOSE n \in TopicNames \cup ClassNames :
                               command = HelpFormat(n))
    ELSE IF \E c \in ClassNames, k \in 1..NumCommands :
                command = HelpCommandFormat(c, COMMANDS[k])
    THEN CommandReply(dev, CHOOSE k \in 1..NumCommands : \E c \in ClassNames :
                               command = HelpCommandFormat(c, COMMANDS[k]))
    ELSE IF \E c \in ClassNames, k \in 1..NumCommands, a \in AttributeNames :
                command = HelpAttributeFormat(c, COMMANDS[k], a)
    THEN AttributeReply(dev, CHOOSE a \in AttributeNames :
                               \E c \in ClassNames, k \in 1..NumCommands :
                                   command = HelpAttributeFormat(c, COMMANDS[k], a))
    ELSE NoHelp

(***************************************************************************)
(* _request: the value returned for the bytes received.                    *)
(***************************************************************************)
\* re.sub(r'^#( |)', '', response, flags=re.MULTILINE)
StripSentinel(s) ==
    LET ms == FindAll("sentinel", s, 1)
    IN Sub(s, ms, [k \in 1..Len(ms) |-> <<>>])

\* response.replace('<', '&lt;').replace('>', '&gt;')
Escape(s) == Replace(Replace(s, "<", <<"&", "l", "t", ";">>), ">", <<"&", "g", "t", ";">>)

Request(dev, command) ==
    LET response == Respond(dev, command)
    IN IF ~StartsWith(response, <<"#">>) THEN None
       ELSE Escape(StripSentinel(response))

(***************************************************************************)
(* _write_html.  A page is kept as the parts of the document that vary:    *)
(* its title, its navigation line, its text, and whether the writer got    *)
(* as far as the closing footer.  nav is a sequence of <<label, target>>.  *)
(***************************************************************************)
\* the navigation line, written when nav has more than one entry
Navigation(nav) ==
    IF Len(nav) > 1
    THEN Concat([k \in 1..Len(nav) |->
                    IF nav[k] # nav[Len(nav)]
                    THEN Link(nav[k][2], nav[k][1]) \o <<" ", "&", "r", "a", "q", "u", "o", ";", " ">>
                    ELSE nav[k][1]])
    ELSE <<>>

\* f.write(text) raises TypeError for None; the file is then left with what
\* was written before it
Page(title, text, nav) ==
    [title |-> title, navigation |-> Navigation(nav),
     text |-> IF text = None THEN <<>> ELSE text, closed |-> text # None]

\* open(os.path.join(output_dir, filename), 'w') and the writes on it
WriteHtml(fs, filename, title, text, nav) ==
    [f \in DOMAIN fs \cup {filename} |->
        IF f = filename THEN Page(title, text, nav) ELSE fs[f]]

\* nav = [('index', filename)] of build
IndexNav == << <<<<"i", "n", "d", "e", "x">>, IndexFilename>> >>

\* nav + [(name, filename)]
ExtendNav(nav, name, filename) == nav \o << <<name, filename>> >>

\* AttributeNav with the command entry pointing at the class page itself
AttributeNavNoBookmark(nav, command, attribute, filename) ==
    nav \o << <<command, nav[Len(nav)][2]>>, <<attribute, filename>> >>

\* nav + [(command, nav[-1][1] + '#' + command), (attribute, filename)]
AttributeNav(nav, command, attribute, filename) ==
    nav \o << <<command, nav[Len(nav)][2] \o <<"#">> \o command>>,
              <<attribute, filename>> >>

\* Replacement without the leading whitespace of the match
ReplacementWithoutPrefix(pre, link) == link

\* m.group(1) + <the link the build of the sub-page returned>
Replacement(pre, link) == pre \o link

\* CommandSupported without the test
CommandSupportedAlways(response) == TRUE

\* response is not None
CommandSupported(response) == response # None

\* CommandSection with the bookmark after the response
CommandSectionAnchorLast(command, response) ==
    linesep \o response \o Anchor(command)

\* os.linesep + '<a id="' + command + '"></a>' + response
CommandSection(command, response) == linesep \o Anchor(command) \o response

\* r'\1<a href="\2.html">\2</a>\3'
ManagerSub(s) ==
    LET ms == FindAll("manager", s, 1)
    IN Sub(s, ms, [k \in 1..Len(ms) |->
                      ms[k].pre \o Link(ms[k].name \o <<".", "h", "t", "m", "l">>, ms[k].name) \o <<")">>])

(***************************************************************************)
(* The state of a run.                                                     *)
(***************************************************************************)
VARIABLES
    device,        \* the device the socket is connected to
    pc,            \* where the run is: "build", "generic", "classes",
                   \* "commands", "attributes", "done" or "error"
    failure,       \* the exception that ended the run, "" while there is none
    requests,      \* the commands sent on the socket, in order
    writes,        \* the calls of _write_html, in order
    files,         \* the output directory: filename -> page
    txt,           \* build: txt
    topicMatches,  \* build: the matches of the generic pattern in txt
    topicOut,      \* build: what the callback returned for the matches so far
    offset,        \* build: offset, counted from 1
    classMatches,  \* build: the matches of the object class pattern in txt[offset:]
    classOut,      \* build: what the callback returned for the matches so far
    object_class,  \* _build_object_class_help: object_class
    class_txt,     \* _build_object_class_help: txt
    commandIdx,    \* _build_object_class_help: the position of command in COMMANDS
    response,      \* _build_object_class_help: response, truncated
    attrMatches,   \* _build_object_class_help: the matches of the attribute pattern
    attrOut        \* _build_object_class_help: what the callback returned so far

buildVars == <<txt, topicMatches, topicOut, offset, classMatches, classOut>>
classVars == <<object_class, class_txt, commandIdx>>
commandVars == <<response, attrMatches, attrOut>>
vars == <<device, pc, failure, requests, writes, files, buildVars, classVars,
          commandVars>>

\* one call of _write_html as the log keeps it; kind and item tell which
\* caller made it and for which identifiers
WriteRecord(kind, item, filename, title, text, nav) ==
    [kind |-> kind, item |-> item, filename |-> filename, title |-> title,
     text |-> text, nav |-> nav]

Init ==
    /\ device \in Devices
    /\ pc = "build"
    /\ failure = ""
    /\ requests = <<>>
    /\ writes = <<>>
    /\ files = <<>>
    /\ txt = <<>>
    /\ topicMatches = <<>>
    /\ topicOut = <<>>
    /\ offset = 0
    /\ classMatches = <<>>
    /\ classOut = <<>>
    /\ object_class = <<>>
    /\ class_txt = <<>>
    /\ commandIdx = 0
    /\ response = <<>>
    /\ attrMatches = <<>>
    /\ attrOut = <<>>

\* the run ends with an unhandled exception
Raise(exception) ==
    /\ pc' = "error"
    /\ failure' = exception

\* build, up to the first match of the generic pattern: the request of
\* help(); re.sub raises TypeError for a txt of None
Build ==
    /\ pc = "build"
    /\ requests' = Append(requests, HelpRoot)
    /\ LET r == Request(device, HelpRoot)
       IN IF r = None
          THEN /\ Raise("TypeError")
               /\ UNCHANGED <<txt, topicMatches>>
          ELSE /\ pc' = "generic"
               /\ txt' = r
               /\ topicMatches' = FindAll("generic", r, 1)
               /\ UNCHANGED failure
    /\ UNCHANGED <<device, writes, files, topicOut, offset, classMatches,
                   classOut, classVars, commandVars>>

\* BuildGenericHelp returning the link without writing the page
BuildGenericHelpUnwritten ==
    /\ pc = "generic"
    /\ Len(topicOut) < Len(topicMatches)
    /\ LET topic == topicMatches[Len(topicOut) + 1].name
       IN /\ requests' = Append(requests, HelpFormat(topic))
          /\ topicOut' = Append(topicOut,
                                Link(PageFilename(topic), HelpFormat(topic)))
    /\ UNCHANGED <<device, pc, failure, writes, files, txt, topicMatches,
                   offset, classMatches, classOut, classVars, commandVars>>

\* _build_generic_help for the next match of the generic pattern
BuildGenericHelp ==
    /\ pc = "generic"
    /\ Len(topicOut) < Len(topicMatches)
    /\ LET topic == topicMatches[Len(topicOut) + 1].name
           filename == PageFilename(topic)
           r == Request(device, HelpFormat(topic))
           nav == ExtendNav(IndexNav, topic, filename)
       IN /\ requests' = Append(requests, HelpFormat(topic))
          /\ writes' = Append(writes, WriteRecord("topic", <<topic>>, filename,
                                                  Capitalize(topic), r, nav))
          /\ files' = WriteHtml(files, filename, Capitalize(topic), r, nav)
          /\ IF r = None
             THEN /\ Raise("TypeError")
                  /\ UNCHANGED topicOut
             ELSE /\ topicOut' = Append(topicOut,
                                        Link(filename, HelpFormat(topic)))
                  /\ UNCHANGED <<pc, failure>>
    /\ UNCHANGED <<device, txt, topicMatches, offset, classMatches, classOut,
                   classVars, commandVars>>

\* build, once the generic pattern has no more matches: txt becomes the
\* result of the substitution and the object class marker is located in it;
\* str.index raises ValueError when it is missing
LocateObjectClasses ==
    /\ pc = "generic"
    /\ Len(topicOut) = Len(topicMatches)
    /\ LET t == Sub(txt, topicMatches, topicOut)
           o == Index(t, ObjectClassesMarker)
       IN /\ txt' = t
          /\ IF o = 0
             THEN /\ Raise("ValueError")
                  /\ UNCHANGED <<offset, classMatches>>
             ELSE /\ pc' = "classes"
                  /\ offset' = o
                  /\ classMatches' = FindAll("objectclass", Drop(t, o - 1), 1)
                  /\ UNCHANGED failure
    /\ UNCHANGED <<device, requests, writes, files, topicMatches, topicOut,
                   classOut, classVars, commandVars>>

\* _build_object_class_help for the next match of the object class pattern,
\* up to the loop over COMMANDS: re.sub raises TypeError for a txt of None
BuildObjectClassHelp ==
    /\ pc = "classes"
    /\ Len(classOut) < Len(classMatches)
    /\ LET name == classMatches[Len(classOut) + 1].name
           r == Request(device, HelpFormat(name))
       IN /\ requests' = Append(requests, HelpFormat(name))
          /\ object_class' = name
          /\ IF r = None
             THEN /\ Raise("TypeError")
                  /\ UNCHANGED <<class_txt, commandIdx>>
             ELSE /\ pc' = "commands"
                  /\ class_txt' = ManagerSub(r)
                  /\ commandIdx' = 1
                  /\ UNCHANGED failure
    /\ UNCHANGED <<device, writes, files, buildVars, commandVars>>

\* one turn of the loop over COMMANDS, up to the first match of the
\* attribute pattern: an unsupported command is skipped; str.index raises
\* ValueError when the response has no option list
RequestCommand ==
    /\ pc = "commands"
    /\ commandIdx <= NumCommands
    /\ LET command == COMMANDS[commandIdx]
           r == Request(device, HelpCommandFormat(object_class, command))
           o == Index(r, OptionsMarker(command))
       IN /\ requests' = Append(requests,
                                HelpCommandFormat(object_class, command))
          /\ IF CommandSupported(r)
             THEN IF o = 0
                  THEN /\ Raise("ValueError")
                       /\ UNCHANGED <<commandIdx, commandVars>>
                  ELSE /\ pc' = "attributes"
                       /\ response' = Drop(r, o - 1)
                       /\ attrMatches' = FindAll("attribute", Drop(r, o - 1), 1)
                       /\ attrOut' = <<>>
                       /\ UNCHANGED <<failure, commandIdx>>
             ELSE /\ commandIdx' = commandIdx + 1
                  /\ UNCHANGED <<pc, failure, commandVars>>
    /\ UNCHANGED <<device, writes, files, buildVars, object_class, class_txt>>

\* _build_object_command_help for the next match of the attribute pattern
BuildObjectCommandHelp ==
    /\ pc = "attributes"
    /\ Len(attrOut) < Len(attrMatches)
    /\ LET m == attrMatches[Len(attrOut) + 1]
           command == COMMANDS[commandIdx]
           attribute == m.name
           filename == AttributeFilename(object_class, command, attribute)
           title == AttributeTitle(object_class, command, attribute)
           r == Request(device,
                        HelpAttributeFormat(object_class, command, attribute))
           nav == AttributeNav(ExtendNav(IndexNav, object_class,
                                         PageFilename(object_class)),
                               command, attribute, filename)
       IN /\ requests' = Append(requests,
                 HelpAttributeFormat(object_class, command, attribute))
          /\ writes' = Append(writes,
                 WriteRecord("attribute", <<object_class, command, attribute>>,
                             filename, title, r, nav))
          /\ files' = WriteHtml(files, filename, title, r, nav)
          /\ IF r = None
             THEN /\ Raise("TypeError")
                  /\ UNCHANGED attrOut
             ELSE /\ attrOut' = Append(attrOut,
                          Replacement(m.pre, Link(filename, attribute)))
                  /\ UNCHANGED <<pc, failure>>
    /\ UNCHANGED <<device, buildVars, classVars, response, attrMatches>>

\* the end of a turn of the loop for a supported command: the section of the
\* command is appended to the text of the class page
AppendCommand ==
    /\ pc = "attributes"
    /\ Len(attrOut) = Len(attrMatches)
    /\ class_txt' = class_txt \o CommandSection(COMMANDS[commandIdx],
                                    Sub(response, attrMatches, attrOut))
    /\ commandIdx' = commandIdx + 1
    /\ pc' = "commands"
    /\ UNCHANGED <<device, failure, requests, writes, files, buildVars,
                   object_class, commandVars>>

\* _build_object_class_help after the loop: the class page is written and
\* the link to it returned to re.sub
WriteObjectClass ==
    /\ pc = "commands"
    /\ commandIdx > NumCommands
    /\ LET filename == PageFilename(object_class)
           nav == ExtendNav(IndexNav, object_class, filename)
           m == classMatches[Len(classOut) + 1]
       IN /\ writes' = Append(writes,
                 WriteRecord("class", <<object_class>>, filename, object_class,
                             class_txt, nav))
          /\ files' = WriteHtml(files, filename, object_class, class_txt, nav)
          /\ classOut' = Append(classOut,
                 Replacement(m.pre, Link(filename, object_class)))
    /\ pc' = "classes"
    /\ UNCHANGED <<device, failure, requests, txt, topicMatches, topicOut,
                   offset, classMatches, classVars, commandVars>>

\* build, once the object class pattern has no more matches: the index page
WriteIndex ==
    /\ pc = "classes"
    /\ Len(classOut) = Len(classMatches)
    /\ LET t == Take(txt, offset - 1)
                    \o Sub(Drop(txt, offset - 1), classMatches, classOut)
       IN /\ txt' = t
          /\ writes' = Append(writes,
                 WriteRecord("index", <<>>, IndexFilename, <<"I", "n", "d", "e", "x">>, t, <<>>))
          /\ files' = WriteHtml(files, IndexFilename, <<"I", "n", "d", "e", "x">>, t, <<>>)
    /\ pc' = "done"
    /\ UNCHANGED <<device, failure, requests, topicMatches, topicOut, offset,
                   classMatches, classOut, classVars, commandVars>>

Next ==
    \/ Build
    \/ BuildGenericHelp
    \/ LocateObjectClasses
    \/ BuildObjectClassHelp
    \/ RequestCommand
    \/ BuildObjectCommandHelp
    \/ AppendCommand
    \/ WriteObjectClass
    \/ WriteIndex

Spec == Init /\ [][Next]_vars

(***************************************************************************)
(* Notions the properties below are stated with.                           *)
(***************************************************************************)
Contains(s, p) == Index(s, p) > 0

\* the device answers the command with help text (a reply that starts with '#')
Answers(command) == StartsWith(Respond(device, command), <<"#">>)

\* the targets of the hyperlinks <a href="..."> in a text
HrefTargets(s) ==
    {SubSeq(s, i + 9, (CHOOSE j \in (i + 9)..Len(s) :
                          /\ s[j] = "\""
                          /\ \A k \in (i + 9)..(j - 1) : s[k] # "\"") - 1) :
        i \in {i \in 1..Len(s) : StartsAt(s, i, <<"<", "a", " ", "h", "r", "e", "f", "=", "\"">>)}}

\* the file a hyperlink target names, and the bookmark in it (<<>> if none)
TargetFile(t) == IF Contains(t, <<"#">>) THEN Take(t, Index(t, <<"#">>) - 1) ELSE t
TargetBookmark(t) == IF Contains(t, <<"#">>) THEN Drop(t, Index(t, <<"#">>)) ELSE <<>>

\* the hyperlinks to sub-pages in the text a call of _write_html was given:
\* in the index page every hyperlink, in a class page the hyperlinks to
\* attribute pages (<class>.<command>.<attribute>.html)
SubPageLinks(w) ==
    CASE w.kind = "index" -> HrefTargets(w.text)
      [] w.kind = "class" ->
            {t \in HrefTargets(w.text) :
                Cardinality({i \in 1..Len(t) : t[i] = "."}) = 3}
      [] OTHER -> {}

\* the request a sub-page was built from
RequestOf(w) ==
    CASE w.kind = "attribute" ->
            HelpAttributeFormat(w.item[1], w.item[2], w.item[3])
      [] w.kind \in {"topic", "class"} -> HelpFormat(w.item[1])
      [] OTHER -> HelpRoot

(***************************************************************************)
(* C1: for every kind of help query below the root, a reply that does not  *)
(* start with '#' makes _request return None, the run does not fail, and   *)
(* no file is written for the query.                                       *)
(***************************************************************************)
C1_AbsentIsSkipped ==
    /\ ~(/\ pc = "error"
         /\ Len(requests) > 1
         /\ ~Answers(requests[Len(requests)]))
    /\ \A i \in 1..Len(writes) : Answers(RequestOf(writes[i]))

\* the filename and the last three breadcrumb entries of an attribute page
C2_Filename(w) ==
    w.item[1] \o <<".">> \o w.item[2] \o <<".">> \o w.item[3] \o <<".", "h", "t", "m", "l">>

C2_ClassCommandAttribute(w) ==
    << <<w.item[1], w.item[1] \o <<".", "h", "t", "m", "l">>>>,
       <<w.item[2], w.item[1] \o <<".", "h", "t", "m", "l", "#">> \o w.item[2]>>,
       <<w.item[3], C2_Filename(w)>> >>

(***************************************************************************)
(* C2 (amended): every call of the page writer for an attribute found in   *)
(* a supported command's option list names the file                        *)
(* <class>.<command>.<attribute>.html, which then exists, and passes a     *)
(* breadcrumb of exactly four entries, in order: the index (index.html),   *)
(* the class (<class>.html), the command (<class>.html#<command>) and the  *)
(* attribute (the attribute page itself).                                  *)
(***************************************************************************)
C2_AttributeBreadcrumb ==
    /\ \A i \in 1..Len(writes) :
          writes[i].kind = "attribute" =>
              /\ writes[i].filename = C2_Filename(writes[i])
              /\ writes[i].filename \in DOMAIN files
              /\ writes[i].nav = << <<<<"i", "n", "d", "e", "x">>, <<"i", "n", "d", "e", "x", ".", "h", "t", "m", "l">>>> >>
                                     \o C2_ClassCommandAttribute(writes[i])
    /\ pc = "attributes" =>
          \A k \in 1..Len(attrOut) :
              \E i \in 1..Len(writes) :
                  /\ writes[i].kind = "attribute"
                  /\ writes[i].item = <<object_class, COMMANDS[commandIdx],
                                        attrMatches[k].name>>

\* C2 as stated: the breadcrumb has exactly the three entries class,
\* command anchor, attribute
C2_ThreeEntries ==
    \A i \in 1..Len(writes) :
        writes[i].kind = "attribute" =>
            /\ writes[i].filename = C2_Filename(writes[i])
            /\ writes[i].filename \in DOMAIN files
            /\ writes[i].nav = C2_ClassCommandAttribute(writes[i])

\* C2: both attributes of an option list have had their pages written
C2_Witness ==
    /\ pc = "attributes"
    /\ Len(attrOut) = 2
    /\ \E i \in 1..Len(writes) : writes[i].kind = "attribute"

(***************************************************************************)
(* C3: the page writer is never called twice with the same filename in a   *)
(* run.                                                                    *)
(***************************************************************************)
C3_WrittenOnce ==
    \A i, j \in 1..Len(writes) : i < j => writes[i].filename # writes[j].filename

(***************************************************************************)
(* C4: after a completed run, for every topic matched by the generic       *)
(* pattern in the root response the file <topic>.html exists and holds the *)
(* topic page, titled with the capitalized topic.                          *)
(***************************************************************************)
C4_TopicPages ==
    pc = "done" =>
        \A k \in 1..Len(topicMatches) :
            LET topic == topicMatches[k].name
                filename == topic \o <<".", "h", "t", "m", "l">>
            IN /\ filename \in DOMAIN files
               /\ files[filename].title = Capitalize(topic)
               /\ files[filename].text = Request(device, HelpFormat(topic))

\* the hyperlink to a class page
C5_Link(name) == <<"<", "a", " ", "h", "r", "e", "f", "=", "\"">> \o name \o <<".", "h", "t", "m", "l", "\"", ">">> \o name \o <<"<", "/", "a", ">">>

\* by how much the first k hyperlinks are longer than the names they replace
RECURSIVE C5_Shift(_, _)
C5_Shift(ms, k) ==
    IF k = 0 THEN 0
    ELSE C5_Shift(ms, k - 1) + (Len(C5_Link(ms[k].name)) - Len(ms[k].name))

\* the step that writes the index page
C5_Step ==
    (pc = "classes" /\ pc' = "done") =>
        /\ Take(txt', offset - 1) = Take(txt, offset - 1)
        /\ Len(txt') = Len(txt) + C5_Shift(classMatches, Len(classMatches))
        /\ IndexFilename \in DOMAIN files'
        /\ files'[IndexFilename].text = txt'
        /\ \A k \in 1..Len(classMatches) :
              LET m == classMatches[k]
                  \* where the match starts in txt, and in txt'
                  p == (offset - 1) + m.start
                  q == p + C5_Shift(classMatches, k - 1)
              IN /\ StartsAt(txt, p, m.pre \o m.name)
                 /\ StartsAt(txt', q, m.pre \o C5_Link(m.name))
                 /\ (m.name \o <<".", "h", "t", "m", "l">>) \in DOMAIN files'

\* the root response of the scenario
C5_ScenarioRoot == <<"#", "S", "e", "s", "s", "i", "o", "n", " ", "h", "e", "l", "p", "\n", "#", "I", "m", "p", "l", "e", "m", "e", "n", "t", "e", "d", " ", "o", "b", "j", "e", "c", "t", "c", "l", "a", "s", "s", "e", "s", ":", "\n", "#", " ", " ", "e", "c", "o", "s", "-", "l", "i", "n", "k", "\n">>

C5_Scenario ==
    (pc = "done" /\ Respond(device, HelpRoot) = C5_ScenarioRoot) =>
        /\ Contains(files[IndexFilename].text,
                    <<"<", "a", " ", "h", "r", "e", "f", "=", "\"", "e", "c", "o", "s", "-", "l", "i", "n", "k", ".", "h", "t", "m", "l", "\"", ">", "e", "c", "o", "s", "-", "l", "i", "n", "k", "<", "/", "a", ">">>)
        /\ <<"e", "c", "o", "s", "-", "l", "i", "n", "k", ".", "h", "t", "m", "l">> \in DOMAIN files

(***************************************************************************)
(* C5: the step that writes the index page puts, for every object class    *)
(* name matched at or after the marker, the hyperlink                      *)
(* <a href="<class>.html"><class></a> where the name stood, keeps the      *)
(* whitespace before it and the text before the marker, and <class>.html   *)
(* exists; for the root response                                           *)
(* '#Session help\n#Implemented objectclasses:\n#  ecos-link\n' the index  *)
(* page contains <a href="ecos-link.html">ecos-link</a> and ecos-link.html *)
(* exists.                                                                 *)
(***************************************************************************)
C5_ClassLinks ==
    [][C5_Step]_vars /\ []C5_Scenario

\* C5: a run for the root response of the scenario has completed
C5_Witness ==
    /\ pc = "done"
    /\ Respond(device, HelpRoot) = C5_ScenarioRoot
    /\ Len(classMatches) = 1

(***************************************************************************)
(* C6: whenever a class page is written, for every command of COMMANDS the *)
(* device answers for that class with help text, the page text contains    *)
(* the bookmark <a id="<command>"></a> immediately followed by the         *)
(* command's rendered response, which starts at its option list.           *)
(***************************************************************************)
C6_AnchorBeforeCommand ==
    \A i \in 1..Len(writes) :
        writes[i].kind = "class" =>
            \A k \in 1..NumCommands :
                Answers(HelpCommandFormat(writes[i].item[1], COMMANDS[k])) =>
                    Contains(writes[i].text,
                             <<"\n", "<", "a", " ", "i", "d", "=", "\"">> \o COMMANDS[k] \o <<"\"", ">", "<", "/", "a", ">", "O", "p", "t", "i", "o", "n", "s", " ", "f", "o", "r", " ">>
                                 \o COMMANDS[k] \o <<" ", "c", "o", "m", "m", "a", "n", "d", ":">>)

\* C6: a class page was written for a class with supported commands
C6_Witness ==
    \E i \in 1..Len(writes) :
        /\ writes[i].kind = "class"
        /\ Answers(HelpCommandFormat(writes[i].item[1], COMMANDS[1]))
        /\ Answers(HelpCommandFormat(writes[i].item[1], COMMANDS[9]))

\* the turn of the loop for a command the device does not answer
C7_SkipStep ==
    (/\ pc = "commands"
     /\ commandIdx <= NumCommands
     /\ ~Answers(HelpCommandFormat(object_class, COMMANDS[commandIdx]))) =>
        /\ pc' = "commands"
        /\ failure' = failure
        /\ commandIdx' = commandIdx + 1
        /\ class_txt' = class_txt
        /\ files' = files
        /\ writes' = writes
        /\ requests' = Append(requests,
                              HelpCommandFormat(object_class, COMMANDS[commandIdx]))

\* what such a command leaves behind
C7_NoTrace ==
    \A c \in ClassNames, k \in 1..NumCommands :
        ~Answers(HelpCommandFormat(c, COMMANDS[k])) =>
            LET prefix == c \o <<".">> \o COMMANDS[k] \o <<".">>
                asked == <<"h", "e", "l", "p", "(">> \o c \o <<",">> \o COMMANDS[k] \o <<",">>
            IN /\ \A f \in DOMAIN files : ~StartsWith(f, prefix)
               /\ \A i \in 1..Len(requests) : ~StartsWith(requests[i], asked)
               /\ \A i \in 1..Len(writes) :
                     (writes[i].kind = "class" /\ writes[i].item[1] = c) =>
                         /\ ~Contains(writes[i].text, Anchor(COMMANDS[k]))
                         /\ \A j \in 1..NumCommands :
                               \E r \in 1..Len(requests) :
                                   requests[r] = HelpCommandFormat(c, COMMANDS[j])

(***************************************************************************)
(* C7: a command the device does not answer with help text is skipped      *)
(* without error: the step that requests it changes nothing but the loop   *)
(* position, no attribute of it is requested, no file                      *)
(* <class>.<command>.*.html exists, and a class page, when written, has    *)
(* no bookmark for it and was written after all commands were requested.   *)
(***************************************************************************)
C7_UnsupportedSkipped ==
    [][C7_SkipStep]_vars /\ []C7_NoTrace

\* C7: a class page was written for a class whose get is not answered and whose set is
C7_Witness ==
    \E i \in 1..Len(writes) :
        /\ writes[i].kind = "class"
        /\ ~Answers(HelpCommandFormat(writes[i].item[1], COMMANDS[1]))
        /\ Contains(writes[i].text, Anchor(COMMANDS[2]))

(***************************************************************************)
(* C8: the crawl is depth-first and sequential: a page is written only     *)
(* after every sub-page linked from its text has been requested and        *)
(* written, no topic page is written after a class or attribute page, and  *)
(* the index page is written last, ending the run.                         *)
(***************************************************************************)
C8_DepthFirst ==
    /\ \A i \in 1..Len(writes) :
          \A t \in SubPageLinks(writes[i]) :
              \E j \in 1..(i - 1) :
                  /\ writes[j].filename = t
                  /\ \E r \in 1..Len(requests) : requests[r] = RequestOf(writes[j])
    /\ \A i, j \in 1..Len(writes) :
          (i < j /\ writes[j].kind = "topic") => writes[i].kind = "topic"
    /\ \A i \in 1..Len(writes) :
          writes[i].kind = "index" => (i = Len(writes) /\ pc = "done")
    /\ pc = "done" =>
          /\ writes # <<>>
          /\ writes[Len(writes)].kind = "index"
          /\ writes[Len(writes)].filename = <<"i", "n", "d", "e", "x", ".", "h", "t", "m", "l">>

\* C8: a completed run that wrote topic, attribute and class pages
C8_Witness ==
    /\ pc = "done"
    /\ \E i, j, k \in 1..Len(writes) :
          /\ writes[i].kind = "topic"
          /\ writes[j].kind = "attribute"
          /\ writes[k].kind = "class"
          /\ j < k

\* the root response is absent or lacks the marker
C9_RootHasNoMarker ==
    LET r == Request(device, HelpRoot)
    IN r = None \/ ~Contains(r, ObjectClassesMarker)

(***************************************************************************)
(* C9: if the root response does not contain 'Implemented objectclasses:', *)
(* the run ends with a fatal error: no object class is requested,          *)
(* index.html is not written, and the topic pages written stay.            *)
(***************************************************************************)
C9_NoMarkerFatal ==
    C9_RootHasNoMarker =>
        /\ pc \in {"build", "generic", "error"}
        /\ Len(requests) <= 1 + Len(topicMatches)
        /\ \A i \in 1..Len(writes) :
              /\ writes[i].kind = "topic"
              /\ writes[i].filename \in DOMAIN files
        /\ IndexFilename \notin DOMAIN files

(***************************************************************************)
(* C10: after a completed run every hyperlink in a written page targets a  *)
(* file written in that run, and a link to a bookmark targets a page whose *)
(* text contains that bookmark.                                            *)
(***************************************************************************)
C10_NoDanglingLinks ==
    pc = "done" =>
        \A f \in DOMAIN files :
            \A t \in HrefTargets(files[f].navigation \o files[f].text) :
                /\ TargetFile(t) \in DOMAIN files
                /\ TargetBookmark(t) # <<>> =>
                      Contains(files[TargetFile(t)].text, Anchor(TargetBookmark(t)))

=============================================================================
